---- MODULE Spec2Model ----
(***************************************************************************)
(* A model of functions.py (approximateJacobian, Polynomial) and of the    *)
(* Newton solver that testNewton.py drives.                                *)
(*                                                                         *)
(* Numbers are exact rationals [n |-> numerator, d |-> denominator > 0] in *)
(* lowest terms, so that the division by dx is a real division.  A point   *)
(* is [kind |-> "scalar" | "vector", v |-> sequence of rationals]; a       *)
(* scalar carries one number.  Arrays hold floating point numbers, as in   *)
(* the tests (an integer numpy array is not modelled).  Python's 0-based   *)
(* index i is the 1-based index i + 1 here.                                *)
(***************************************************************************)
EXTENDS Integers, Sequences, FiniteSets, TLC

(***************************************************************************)
(* Bounds of the model.                                                    *)
(***************************************************************************)
\* largest dimension N of a vector point
MaxN == 2
\* largest number of coefficients of a polynomial
MaxLen == 3

(***************************************************************************)
(* Exact rational arithmetic: Python's +, -, *, / on numbers.              *)
(***************************************************************************)
Abs(a) == IF a < 0 THEN -a ELSE a

RECURSIVE GCD(_, _)
GCD(a, b) == IF b = 0 THEN a ELSE GCD(b, a % b)

Rat(n, d) ==
    LET g == GCD(Abs(n), Abs(d))
        s == IF d < 0 THEN -1 ELSE 1
    IN  [n |-> (s * n) \div g, d |-> (s * d) \div g]

Int2Rat(c) == [n |-> c, d |-> 1]

Zero == Int2Rat(0)

RAdd(a, b) == Rat(a.n * b.d + b.n * a.d, a.d * b.d)

RSub(a, b) == Rat(a.n * b.d - b.n * a.d, a.d * b.d)

RMul(a, b) == Rat(a.n * b.n, a.d * b.d)

\* defined for b # 0 only
RDiv(a, b) == Rat(a.n * b.d, a.d * b.n)

RAbs(a) == [n |-> Abs(a.n), d |-> a.d]

RLess(a, b) == a.n * b.d < b.n * a.d

(***************************************************************************)
(* Elementwise arithmetic of numpy on points of the same shape, and of a   *)
(* point with a plain number.                                              *)
(***************************************************************************)
Scalar(r) == [kind |-> "scalar", v |-> <<r>>]

Vector(s) == [kind |-> "vector", v |-> s]

\* p + q, elementwise
PAdd(p, q) == [kind |-> p.kind, v |-> [j \in 1..Len(p.v) |-> RAdd(p.v[j], q.v[j])]]

\* p - q, elementwise
PSub(p, q) == [kind |-> p.kind, v |-> [j \in 1..Len(p.v) |-> RSub(p.v[j], q.v[j])]]

\* p / r, every element divided by the number r
PDivBy(p, r) == [kind |-> p.kind, v |-> [j \in 1..Len(p.v) |-> RDiv(p.v[j], r)]]

\* np.isscalar(x)
isscalar(p) == p.kind = "scalar"

\* x.size
size(p) == Len(p.v)

(***************************************************************************)
(* Polynomial: coeffs[j] is the coefficient of degree j - 1.               *)
(***************************************************************************)
\* reversed with the fault of folding the coefficients in their own order
NotReversed(s) == s

\* reversed(self._coeffs)
reversed(s) == [j \in 1..Len(s) |-> s[Len(s) + 1 - j]]

\* the loop of _f over the coefficients cs still to fold: ans = x*ans + c
RECURSIVE HornerLoop(_, _, _)
HornerLoop(cs, x, ans) ==
    IF cs = <<>> THEN ans
    ELSE HornerLoop(Tail(cs), x, RAdd(RMul(x, ans), Int2Rat(Head(cs))))

\* Polynomial._f, which __call__ returns
Polynomial_f(coeffs, x) == HornerLoop(reversed(coeffs), x, Zero)

(***************************************************************************)
(* The callables handed to approximateJacobian and to the solver:          *)
(*   [kind |-> "poly", coeffs |-> c]   a Polynomial, applied elementwise   *)
(*   [kind |-> "matmul", A |-> rows]   x |-> A * x (testFunctions.py)      *)
(***************************************************************************)
\* row r of A times the vector s
RECURSIVE Dot(_, _, _)
Dot(row, s, j) ==
    IF j = 0 THEN Zero
    ELSE RAdd(Dot(row, s, j - 1), RMul(Int2Rat(row[j]), s[j]))

MatMul(A, p) == [kind |-> p.kind, v |-> [r \in 1..Len(A) |-> Dot(A[r], p.v, Len(p.v))]]

Apply(g, p) ==
    IF g.kind = "poly"
    THEN [kind |-> p.kind, v |-> [j \in 1..Len(p.v) |-> Polynomial_f(g.coeffs, p.v[j])]]
    ELSE MatMul(g.A, p)

(***************************************************************************)
(* Inputs the operations are called with.                                  *)
(***************************************************************************)
CoeffSet == {-1, 0, 3, 6}

XSet == {Int2Rat(-1), Int2Rat(0), Int2Rat(2)}

\* positive steps: below, at and above 1
DxSet == {Rat(1, 2), Int2Rat(1), Int2Rat(2)}

SeqsUpTo(S, n) == UNION {[1..m -> S] : m \in 0..n}

Polys(n) == {[kind |-> "poly", coeffs |-> c, A |-> <<>>] : c \in SeqsUpTo(CoeffSet, n)}

\* N x N matrices a + b * (N*(r-1) + c); a = 0, b = 1, N = 2 is the tests' [[1,2],[3,4]]
Mats(N) ==
    {[kind |-> "matmul", coeffs |-> <<>>,
      A |-> [r \in 1..N |-> [c \in 1..N |-> a + b * (N * (r - 1) + c)]]] :
        a \in {0, 1}, b \in {-1, 1}}

ScalarPoints == {Scalar(r) : r \in XSet}

VectorPoints(N) == {Vector(s) : s \in [1..N -> XSet]}

NoPoint == [kind |-> "none", v |-> <<>>]

NoFun == [kind |-> "none", coeffs |-> <<>>, A |-> <<>>]

NoResult == [kind |-> "none", m |-> <<>>]

(***************************************************************************)
(* State.                                                                  *)
(***************************************************************************)
VARIABLES
    op,       \* the operation called: "none", "approximateJacobian", "Polynomial", "solve"
    pc,       \* the position in it
    f,        \* the callable
    x,        \* approximateJacobian's argument x (the caller's object)
    dx,       \* the step
    fx,       \* approximateJacobian's local fx
    N,        \* its local N
    Df_x,     \* its local result matrix, a sequence of rows
    h,        \* its local perturbation vector
    i,        \* its loop index, 1-based
    result,   \* what approximateJacobian returned
    calls,    \* history: the points f was called at during the current call
    x_in,     \* history: the value of x when approximateJacobian was called
    px,       \* Polynomial.__call__'s argument
    pans,     \* and what it returned
    xk,       \* the solver's iterate x_k
    k,        \* its iteration count
    res,      \* its last residual f(x_k)
    tol,      \* its tolerance
    maxiter,  \* its iteration budget
    status    \* how solve ended: "none", "converged", "SingularJacobian",
              \* "MaxIterationsExceeded"

nwvars == <<xk, k, res, tol, maxiter, status>>

vars == <<op, pc, f, x, dx, fx, N, Df_x, h, i, result, calls, x_in, px, pans,
          xk, k, res, tol, maxiter, status>>

Init ==
    /\ op = "none"
    /\ pc = "idle"
    /\ f = NoFun
    /\ x = NoPoint
    /\ dx = Zero
    /\ fx = NoPoint
    /\ N = 0
    /\ Df_x = <<>>
    /\ h = NoPoint
    /\ i = 0
    /\ result = NoResult
    /\ calls = <<>>
    /\ x_in = NoPoint
    /\ px = Zero
    /\ pans = Zero
    /\ xk = Zero
    /\ k = 0
    /\ res = Zero
    /\ tol = Zero
    /\ maxiter = 0
    /\ status = "none"

(***************************************************************************)
(* approximateJacobian(f, x, dx)                                           *)
(***************************************************************************)
\* ZerosNN with the fault of one column too many
ZerosOffByOne(n) == [r \in 1..n |-> [c \in 1..(n + 1) |-> Zero]]

\* np.matrix(np.zeros((N,N)))
ZerosNN(n) == [r \in 1..n |-> [c \in 1..n |-> Zero]]

\* np.zeros_like(x)
zeros_like(p) == [kind |-> p.kind, v |-> [j \in 1..Len(p.v) |-> Zero]]

\* h[i] = dx
SetSlot(hh, slot, d) == [hh EXCEPT !.v[slot] = d]

\* ResetSlot with the fault of leaving dx in the slot
NoReset(hh, slot) == hh

\* h[i] = 0
ResetSlot(hh, slot) == [hh EXCEPT !.v[slot] = Zero]

\* Perturb with the fault of x += h, which writes the caller's array
PerturbInPlace(p, hh) == [x |-> PAdd(p, hh), arg |-> PAdd(p, hh)]

\* x + h: a new array, handed to f; x itself is not written
Perturb(p, hh) == [x |-> p, arg |-> PAdd(p, hh)]

\* ColumnStep with the fault of evaluating f(x) again for every column
ColumnStepReeval(g, p, hh, base, d) ==
    LET q == Perturb(p, hh)
    IN  [x |-> q.x,
         calls |-> <<q.arg, q.x>>,
         col |-> PSub(Apply(g, q.arg), PDivBy(Apply(g, q.x), d))]

\* f(x + h) - fx / dx: the division binds tighter than the subtraction
ColumnStep(g, p, hh, base, d) ==
    LET q == Perturb(p, hh)
    IN  [x |-> q.x,
         calls |-> <<q.arg>>,
         col |-> PSub(Apply(g, q.arg), PDivBy(base, d))]

\* Df_x[:,i] = col
SetColumn(M, c, col) == [r \in 1..Len(M) |-> [M[r] EXCEPT ![c] = col.v[r]]]

\* f(x + dx) - fx / dx on a scalar x
ScalarQuotient(g, p, base, d) == PSub(Apply(g, PAdd(p, Scalar(d))), PDivBy(base, d))

CallApproximateJacobian ==
    /\ pc = "idle"
    /\ \E n \in 1..MaxN, d \in DxSet :
        \E g \in Polys(MaxLen) \cup Mats(n) :
            \E p \in IF g.kind = "poly" THEN ScalarPoints \cup VectorPoints(n)
                     ELSE VectorPoints(n) :
                /\ op' = "approximateJacobian"
                /\ f' = g
                /\ x' = p
                /\ x_in' = p
                /\ dx' = d
    /\ calls' = <<>>
    /\ pc' = "aj_fx"
    /\ UNCHANGED <<fx, N, Df_x, h, i, result, px, pans, nwvars>>

\* fx = f(x)
AJ_EvalFx ==
    /\ pc = "aj_fx"
    /\ fx' = Apply(f, x)
    /\ calls' = Append(calls, x)
    /\ pc' = "aj_branch"
    /\ UNCHANGED <<op, f, x, dx, N, Df_x, h, i, result, x_in, px, pans, nwvars>>

\* if np.isscalar(x): return f(x + dx) - fx / dx
AJ_ScalarReturn ==
    /\ pc = "aj_branch"
    /\ isscalar(x)
    /\ LET val == ScalarQuotient(f, x, fx, dx)
       IN  result' = [kind |-> val.kind, m |-> <<val.v>>]
    /\ calls' = Append(calls, PAdd(x, Scalar(dx)))
    /\ pc' = IF op = "solve" THEN "nw_step" ELSE "aj_done"
    /\ UNCHANGED <<op, f, x, dx, fx, N, Df_x, h, i, x_in, px, pans, nwvars>>

\* N = x.size; Df_x = np.matrix(np.zeros((N,N))); h = np.zeros_like(x)
AJ_Alloc ==
    /\ pc = "aj_branch"
    /\ ~isscalar(x)
    /\ N' = size(x)
    /\ Df_x' = ZerosNN(size(x))
    /\ h' = zeros_like(x)
    /\ i' = 1
    /\ pc' = "aj_loop"
    /\ UNCHANGED <<op, f, x, dx, fx, result, calls, x_in, px, pans, nwvars>>

\* for i in range(x.size): h[i] = dx
AJ_SetH ==
    /\ pc = "aj_loop"
    /\ i <= size(x)
    /\ h' = SetSlot(h, i, dx)
    /\ pc' = "aj_call"
    /\ UNCHANGED <<op, f, x, dx, fx, N, Df_x, i, result, calls, x_in, px, pans, nwvars>>

\* Df_x[:,i] = f(x + h) - fx / dx
AJ_Column ==
    /\ pc = "aj_call"
    /\ LET s == ColumnStep(f, x, h, fx, dx)
       IN  /\ x' = s.x
           /\ calls' = calls \o s.calls
           /\ Df_x' = SetColumn(Df_x, i, s.col)
    /\ pc' = "aj_reset"
    /\ UNCHANGED <<op, f, dx, fx, N, h, i, result, x_in, px, pans, nwvars>>

\* h[i] = 0, and on to the next i
AJ_ResetH ==
    /\ pc = "aj_reset"
    /\ h' = ResetSlot(h, i)
    /\ i' = i + 1
    /\ pc' = "aj_loop"
    /\ UNCHANGED <<op, f, x, dx, fx, N, Df_x, result, calls, x_in, px, pans, nwvars>>

\* return Df_x
AJ_Return ==
    /\ pc = "aj_loop"
    /\ i > size(x)
    /\ result' = [kind |-> "matrix", m |-> Df_x]
    /\ pc' = "aj_done"
    /\ UNCHANGED <<op, f, x, dx, fx, N, Df_x, h, i, calls, x_in, px, pans, nwvars>>

(***************************************************************************)
(* Polynomial(coeffs)(x)                                                   *)
(***************************************************************************)
CallPolynomial ==
    /\ pc = "idle"
    /\ \E g \in Polys(MaxLen), r \in XSet \cup DxSet :
        /\ f' = g
        /\ px' = r
        /\ pans' = Polynomial_f(g.coeffs, r)
    /\ op' = "Polynomial"
    /\ pc' = "poly_done"
    /\ UNCHANGED <<x, dx, fx, N, Df_x, h, i, result, calls, x_in, nwvars>>

(***************************************************************************)
(* Newton(f, tol, maxiter).solve(x0) on a scalar x0, with no exact         *)
(* Jacobian: the Jacobian is approximateJacobian(f, x_k, dx).              *)
(***************************************************************************)
TolSet == {Rat(1, 8)}

\* the iteration budgets solve is given; testNewton.py uses 2
MaxiterSet == {1, 2}

\* f(x_k) for the scalar x_k
Residual(g, r) == Apply(g, Scalar(r)).v[1]

\* the convergence criterion: |f(x_k)| < tol
Converged(r, t) == RLess(RAbs(r), t)

\* x_{k+1} = x_k - delta, where J * delta = r
NewtonUpdate(xx, r, J) == RSub(xx, RDiv(r, J))

\* x_k = x0, k = 0
CallSolve ==
    /\ pc = "idle"
    /\ \E g \in Polys(2), x0 \in XSet, d \in DxSet, t \in TolSet, m \in MaxiterSet :
        /\ f' = g
        /\ xk' = x0
        /\ dx' = d
        /\ tol' = t
        /\ maxiter' = m
    /\ k' = 0
    /\ op' = "solve"
    /\ pc' = "nw_resid"
    /\ UNCHANGED <<x, fx, N, Df_x, h, i, result, calls, x_in, px, pans, res, status>>

\* r = f(x_k); if it is below tol, return x_k at once
NW_Residual ==
    /\ pc = "nw_resid"
    /\ res' = Residual(f, xk)
    /\ IF Converged(res', tol)
       THEN status' = "converged" /\ pc' = "nw_done"
       ELSE status' = status /\ pc' = "nw_jac"
    /\ UNCHANGED <<op, f, x, dx, fx, N, Df_x, h, i, result, calls, x_in, px, pans,
                   xk, k, tol, maxiter>>

\* J = approximateJacobian(f, x_k, dx): the call
NW_Jacobian ==
    /\ pc = "nw_jac"
    /\ x' = Scalar(xk)
    /\ x_in' = Scalar(xk)
    /\ calls' = <<>>
    /\ pc' = "aj_fx"
    /\ UNCHANGED <<op, f, dx, fx, N, Df_x, h, i, result, px, pans, nwvars>>

\* solve J * delta = r; x_{k+1} = x_k - delta; test the residual; count the iteration
NW_Step ==
    /\ pc = "nw_step"
    /\ LET J == result.m[1][1]
       IN  IF J = Zero
           THEN /\ status' = "SingularJacobian"
                /\ pc' = "nw_done"
                /\ UNCHANGED <<xk, k, res>>
           ELSE /\ xk' = NewtonUpdate(xk, res, J)
                /\ res' = Residual(f, xk')
                /\ IF Converged(res', tol)
                   THEN /\ status' = "converged"
                        /\ pc' = "nw_done"
                        /\ k' = k
                   ELSE /\ k' = k + 1
                        /\ IF k' >= maxiter
                           THEN status' = "MaxIterationsExceeded" /\ pc' = "nw_done"
                           ELSE status' = status /\ pc' = "nw_jac"
    /\ UNCHANGED <<op, f, x, dx, fx, N, Df_x, h, i, result, calls, x_in, px, pans,
                   tol, maxiter>>

Next ==
    \/ CallApproximateJacobian
    \/ AJ_EvalFx
    \/ AJ_ScalarReturn
    \/ AJ_Alloc
    \/ AJ_SetH
    \/ AJ_Column
    \/ AJ_ResetH
    \/ AJ_Return
    \/ CallPolynomial
    \/ CallSolve
    \/ NW_Residual
    \/ NW_Jacobian
    \/ NW_Step

Spec == Init /\ [][Next]_vars

(***************************************************************************)
(* Reference definitions the properties are stated with.                   *)
(***************************************************************************)
RECURSIVE RPow(_, _)
RPow(r, e) == IF e = 0 THEN Int2Rat(1) ELSE RMul(r, RPow(r, e - 1))

\* the sum of coeffs[j] * r^(j-1) over the first n coefficients
RECURSIVE RefSum(_, _, _)
RefSum(coeffs, r, n) ==
    IF n = 0 THEN Zero
    ELSE RAdd(RefSum(coeffs, r, n - 1), RMul(Int2Rat(coeffs[n]), RPow(r, n - 1)))

\* p + d * e_j
UnitStep(p, j, d) == [p EXCEPT !.v[j] = RAdd(p.v[j], d)]

\* (g(q) - g(p)) / d, elementwise
ForwardDifference(g, p, q, d) == PDivBy(PSub(Apply(g, q), Apply(g, p)), d)

\* approximateJacobian has returned (to the caller, or to solve)
AJReturned == pc \in {"aj_done", "nw_step"}

AJReturnedScalar == AJReturned /\ isscalar(x_in)

AJReturnedVector == AJReturned /\ ~isscalar(x_in)

InVectorLoop == pc \in {"aj_loop", "aj_call", "aj_reset"}

(***************************************************************************)
(* C1: for a scalar x, approximateJacobian(f, x, dx) returns the forward   *)
(* difference quotient (f(x+dx) - f(x)) / dx: the whole difference is      *)
(* divided by dx.                                                          *)
(***************************************************************************)
C1_ScalarIsForwardDifference ==
    AJReturnedScalar =>
        result.m[1] = ForwardDifference(f, x_in, PAdd(x_in, Scalar(dx)), dx).v

(***************************************************************************)
(* C2: for a vector x of dimension N, column i of the returned matrix is   *)
(* (f(x + dx*e_i) - f(x)) / dx, for every i.                               *)
(***************************************************************************)
C2_ColumnsAreForwardDifferences ==
    AJReturnedVector =>
        \A c \in 1..size(x_in) : \A r \in 1..size(x_in) :
            result.m[r][c] = ForwardDifference(f, x_in, UnitStep(x_in, c, dx), dx).v[r]

(***************************************************************************)
(* C3: for a scalar linear f(x) = a*x + b, approximateJacobian returns the *)
(* slope a, whatever x0, b and dx are.                                     *)
(***************************************************************************)
C3_LinearGivesSlope ==
    (AJReturnedScalar /\ f.kind = "poly" /\ Len(f.coeffs) = 2) =>
        result.m[1][1] = Int2Rat(f.coeffs[2])

(***************************************************************************)
(* C4: for f(x) = A*x, approximateJacobian returns A entry by entry,       *)
(* whatever x0 is.                                                         *)
(***************************************************************************)
C4_MatMulGivesA ==
    (AJReturnedVector /\ f.kind = "matmul") =>
        \A r \in 1..size(x_in) : \A c \in 1..size(x_in) :
            result.m[r][c] = Int2Rat(f.A[r][c])

(***************************************************************************)
(* C5: the rank of the result is decided by the input alone: a scalar for  *)
(* a scalar x, an N x N matrix for an array-like x of N elements.          *)
(***************************************************************************)
C5_ResultShape ==
    AJReturned =>
        IF isscalar(x_in)
        THEN result.kind = "scalar"
        ELSE /\ result.kind = "matrix"
             /\ Len(result.m) = size(x_in)
             /\ \A r \in 1..Len(result.m) : Len(result.m[r]) = size(x_in)

C5_Witness ==
    /\ AJReturnedVector
    /\ size(x_in) = 2
    /\ result.kind = "matrix"
    /\ Len(result.m) = 2

(***************************************************************************)
(* C6: Polynomial([c0, ..., cn])(x) returns the sum of ci * x^i, for every *)
(* coefficient sequence, the empty one included (value 0).                 *)
(***************************************************************************)
C6_HornerIsSum ==
    pc = "poly_done" => pans = RefSum(f.coeffs, px, Len(f.coeffs))

C6_Witness ==
    /\ pc = "poly_done"
    /\ f.coeffs = <<6, 3, -1>>
    /\ px = Int2Rat(2)
    /\ pans = Int2Rat(8)

(***************************************************************************)
(* C7: for a scalar linear f(x) = a*x + b with a # 0 and maxiter >= 2,     *)
(* solve(x0) returns the root -b/a after a single Newton step (none when   *)
(* x0 is the root), and does not report a maxiter failure.                 *)
(***************************************************************************)
C7_LinearSolvedInOneStep ==
    (pc = "nw_done" /\ Len(f.coeffs) = 2 /\ f.coeffs[2] # 0 /\ maxiter >= 2) =>
        /\ status = "converged"
        /\ k = 0
        /\ xk = Rat(-f.coeffs[1], f.coeffs[2])

C10_InputUnchanged ==
    (pc \in {"aj_fx", "aj_branch"} \/ InVectorLoop \/ AJReturned) => x = x_in

C10_Witness ==
    /\ pc = "aj_done"
    /\ ~isscalar(x_in)
    /\ i = 3
    /\ x = x_in
    /\ x.v = <<Int2Rat(-1), Int2Rat(2)>>

====
